---- MODULE Spec2Model ----
(***************************************************************************)
(* Model of src/bitbucket.rs: the Bitbucket implementation of the          *)
(* Repository trait.  A lifecycle call (build_queued, build_running,       *)
(* build_success, build_failure) reconciles one status comment on a pull   *)
(* request (update_pr_build_status_comment) and then, when                 *)
(* credentials.post_build is set, posts a build-status record              *)
(* (post_build).                                                           *)
(*                                                                         *)
(* Strings are sequences of characters (one-character strings; a code      *)
(* point outside ASCII is written "U+xxxx"), so that str::contains and     *)
(* String equality are computed as the code computes them.  Every remote   *)
(* request (list, create, edit, build-status post) is one atomic step of   *)
(* the calling execution context; the remote comment list is shared.       *)
(***************************************************************************)
EXTENDS Integers, Sequences, FiniteSets, TLC

\* ------------------------------------------------------------------ bounds
\* Execution contexts that may run lifecycle calls concurrently.
NumProcs == 2
\* Lifecycle calls started in one behaviour.
MaxCalls == 2

Procs == 1..NumProcs

\* ------------------------------------------------------------------ strings
\* Option<T>: None is the empty sequence, Some(x) the one-element sequence.
None == <<>>
Some(x) == <<x>>

\* haystack.contains(needle) of str: needle occurs as a contiguous run.
Contains(haystack, needle) ==
    \E i \in 0..(Len(haystack) - Len(needle)) :
        \A j \in 1..Len(needle) : haystack[i + j] = needle[j]

\* format!("⏳ [Build]({}) for commit {} queued", build_url, commit_id)
make_queued_comment(build_url, commit_id) ==
    <<"U+23F3", " ", "[", "B", "u", "i", "l", "d", "]", "(">> \o build_url
    \o <<")", " ", "f", "o", "r", " ", "c", "o", "m", "m", "i", "t", " ">> \o commit_id
    \o <<" ", "q", "u", "e", "u", "e", "d">>

\* format!("✔️ [Build]({}) for commit {} is **successful**: {}", ...)
make_success_comment(build_url, commit_id, build_message) ==
    <<"U+2714", "U+FE0F", " ", "[", "B", "u", "i", "l", "d", "]", "(">> \o build_url
    \o <<")", " ", "f", "o", "r", " ", "c", "o", "m", "m", "i", "t", " ">> \o commit_id
    \o <<" ", "i", "s", " ", "*", "*", "s", "u", "c", "c", "e", "s", "s", "f", "u", "l",
         "*", "*", ":", " ">> \o build_message

\* format!("❌ [Build]({}) for commit {} has **failed**: {}", ...)
make_failure_comment(build_url, commit_id, build_message) ==
    <<"U+274C", " ", "[", "B", "u", "i", "l", "d", "]", "(">> \o build_url
    \o <<")", " ", "f", "o", "r", " ", "c", "o", "m", "m", "i", "t", " ">> \o commit_id
    \o <<" ", "h", "a", "s", " ", "*", "*", "f", "a", "i", "l", "e", "d", "*", "*",
         ":", " ">> \o build_message

\* ------------------------------------------------------------------ inputs
\* credentials.username, and another account commenting on the pull request.
Username == "bot"
OtherUser == "human"

\* pr.from_commit values: "1" is a proper substring of "12".  "12" also occurs in
\* one build's web_url and in one build's status_text below.
CommitIds == {<<"1">>, <<"1", "2">>}

\* The pull request of the lifecycle calls; from_commit moves as commits are pushed.
PullRequests == {[id |-> 1, from_commit |-> c] : c \in CommitIds}

\* ::BuildDetails values: web_url, status_text, state (phase), status (outcome).
BuildDetails ==
    { [web_url |-> <<"u", "1", "2">>, status_text |-> None, state |-> "Queued",
       status |-> "Failure"],
      [web_url |-> <<"u">>, status_text |-> Some(<<"k">>), state |-> "Finished",
       status |-> "Success"],
      [web_url |-> <<"u">>, status_text |-> Some(<<"1", "2">>), state |-> "Finished",
       status |-> "Failure"] }

\* ------------------------------------------------------------------ state
VARIABLES
    comments,    \* the remote comment activities of the pull request, in list order
    next_id,     \* id the remote gives to the next created comment
    post_build_flag,  \* credentials.post_build
    pc,          \* position of each execution context in its lifecycle call
    call,        \* the arguments of update_pr_build_status_comment: pr, build, state
    found,       \* comment chosen by the matcher (edit target or reused comment)
    fetched,     \* what get_comments returned to the call
    comment,     \* the Result<Comment, String> of update_pr_build_status_comment
    opcode,      \* the opcode bound with it
    trace,       \* collaborator requests and broadcasts issued by the call, in order
    ret,         \* the lifecycle call's return value
    before,      \* the remote comment list when the call started
    last,        \* the lifecycle call that returned most recently
    started,     \* lifecycle calls started so far
    initial,     \* the remote comment list before the first lifecycle call
    shadowed,    \* commit ids that occurred in the text of a call for another commit id
    arg,         \* arguments given to the text generation and to make_build alone
    result       \* what they returned

vars == <<comments, next_id, post_build_flag, pc, call, found, fetched, comment,
          opcode, trace, ret, before, last, started, initial, shadowed, arg, result>>

\* Values of an execution context that is in no call.
NoCall == [pr |-> [id |-> 0, from_commit |-> <<>>],
           build |-> [web_url |-> <<>>, status_text |-> None, state |-> "", status |-> ""],
           state |-> ""]
NoLast == [call |-> NoCall, opcode |-> "", ok |-> FALSE]

\* No arguments, no result: the text generation and make_build are not run alone.
NoArg == [state |-> "", pr |-> NoCall.pr, build |-> NoCall.build]
NoResult == [of |-> "", text |-> <<>>, state |-> ""]

\* Result<T, String>: Ok(x) carries x, Err carries no value the model reads.
Err == [ok |-> FALSE, v |-> None]
Ok(x) == [ok |-> TRUE, v |-> Some(x)]

\* Variant of status_text_of: an absent status text is written out as "None".
status_text_of_debug(build) ==
    IF build.status_text = None THEN <<"N", "o", "n", "e">> ELSE build.status_text[1]

\* update_pr_build_status_comment, lines 290-306: the text of the comment.
status_text_of(build) ==
    IF build.status_text = None THEN <<>> ELSE build.status_text[1]

Text(pr, build, state) ==
    CASE state = "INPROGRESS" -> make_queued_comment(build.web_url, pr.from_commit)
      [] state = "FAILED" ->
            make_failure_comment(build.web_url, pr.from_commit, status_text_of(build))
      [] state = "SUCCESSFUL" ->
            make_success_comment(build.web_url, pr.from_commit, status_text_of(build))

text(p) == Text(call[p].pr, call[p].build, call[p].state)

\* comments.iter().find(..) over the positions S that satisfy the closure: the
\* element at the first of them, None when there is none.
Find(cs, S) ==
    IF S = {} THEN None ELSE Some(cs[CHOOSE i \in S : \A j \in S : i <= j])

\* Variants of matching_comments: the comparison negated; the last match taken.
matching_comments_ne(cs, t) ==
    Find(cs, {i \in 1..Len(cs) : cs[i].text # t})

matching_comments_last(cs, t) ==
    LET S == {i \in 1..Len(cs) : cs[i].text = t}
    IN IF S = {} THEN None ELSE Some(cs[CHOOSE i \in S : \A j \in S : j <= i])

\* matching_comments, lines 271-277.
matching_comments(cs, t) ==
    Find(cs, {i \in 1..Len(cs) : cs[i].text = t})

\* Variants of matching_comments_substring: the last match taken; every comment
\* accepted.
matching_comments_substring_last(cs, substr) ==
    LET S == {i \in 1..Len(cs) : Contains(cs[i].text, substr)}
    IN IF S = {} THEN None ELSE Some(cs[CHOOSE i \in S : \A j \in S : j <= i])

matching_comments_substring_any(cs, substr) ==
    IF cs = <<>> THEN None ELSE Some(cs[1])

\* Variant of matching_comments_substring: only the first character of the
\* substring is searched for.
matching_comments_substring_head(cs, substr) ==
    Find(cs, {i \in 1..Len(cs) : Contains(cs[i].text, SubSeq(substr, 1, 1))})

\* matching_comments_substring, lines 279-285.
matching_comments_substring(cs, substr) ==
    Find(cs, {i \in 1..Len(cs) : Contains(cs[i].text, substr)})

\* Variants of Classify: the substring search given the text instead of the commit
\* id; the substring search tried before the exact one.
Classify_substring_of_text(cs, t, commit_id) ==
    LET exact == matching_comments(cs, t)
        sub == matching_comments_substring(cs, t)
    IN IF exact # None THEN [kind |-> "Existing", found |-> exact]
       ELSE IF sub # None THEN [kind |-> "Update", found |-> sub]
       ELSE [kind |-> "Post", found |-> None]

Classify_substring_first(cs, t, commit_id) ==
    LET exact == matching_comments(cs, t)
        sub == matching_comments_substring(cs, commit_id)
    IN IF sub # None /\ sub # exact THEN [kind |-> "Update", found |-> sub]
       ELSE IF exact # None THEN [kind |-> "Existing", found |-> exact]
       ELSE [kind |-> "Post", found |-> None]

\* Variant of Classify: no substring search, a text that is not found is posted.
Classify_exact_only(cs, t, commit_id) ==
    LET exact == matching_comments(cs, t)
    IN IF exact # None THEN [kind |-> "Existing", found |-> exact]
       ELSE [kind |-> "Post", found |-> None]

\* update_pr_build_status_comment, lines 314-323: the matcher's decision on a fetched
\* list; found is the comment reused (Existing) or edited (Update).
Classify(cs, t, commit_id) ==
    LET exact == matching_comments(cs, t)
        sub == matching_comments_substring(cs, commit_id)
    IN IF exact # None THEN [kind |-> "Existing", found |-> exact]
       ELSE IF sub # None THEN [kind |-> "Update", found |-> sub]
       ELSE [kind |-> "Post", found |-> None]

\* Variants of AfterReconcile: the error of the reconciliation not returned before
\* the flag is read; the flag not read.
AfterReconcile_flag_first(result_ok, flag) ==
    IF flag THEN "post_build"
    ELSE IF ~result_ok THEN "Err: Error submitting comment"
    ELSE "Ok"

AfterReconcile_no_flag(result_ok, flag) ==
    IF ~result_ok THEN "Err: Error submitting comment"
    ELSE "post_build"

\* Lines 201-213 (and 222-234, 238-250): what the lifecycle call does with the result
\* of update_pr_build_status_comment.
AfterReconcile(result_ok, flag) ==
    IF ~result_ok THEN "Err: Error submitting comment"
    ELSE IF flag THEN "post_build"
    ELSE "Ok"

\* get_comments, lines 352-359: the activities of the account itself, as comments.
OwnComments(activities) ==
    SelectSeq(activities, LAMBDA a : a.author = Username)

\* Comment lists a pull request can carry when the calls of a behaviour begin: none;
\* another account's comment quoting a commit id; and that comment followed by the
\* account's own comments left by earlier calls for commit "12" that raced (two
\* build_queued and one build_success, each of which found no comment and posted).
InitialComments ==
    LET mine(id, t) == [id |-> id, version |-> 0, text |-> t, author |-> Username]
        quote == [id |-> 1, version |-> 0, text |-> <<"1", "2">>, author |-> OtherUser]
        queued == make_queued_comment(<<"u">>, <<"1", "2">>)
        success == make_success_comment(<<"u">>, <<"1", "2">>, <<"k">>)
    IN { <<>>,
         <<quote>>,
         <<quote, mine(2, queued), mine(3, success), mine(4, queued)>> }

Init ==
    /\ comments \in InitialComments
    /\ initial = comments
    /\ next_id = Len(comments) + 1
    /\ post_build_flag \in BOOLEAN
    /\ pc = [p \in Procs |-> "idle"]
    /\ call = [p \in Procs |-> NoCall]
    /\ found = [p \in Procs |-> None]
    /\ fetched = [p \in Procs |-> Err]
    /\ comment = [p \in Procs |-> Err]
    /\ opcode = [p \in Procs |-> ""]
    /\ trace = [p \in Procs |-> <<>>]
    /\ ret = [p \in Procs |-> ""]
    /\ before = [p \in Procs |-> <<>>]
    /\ last = NoLast
    /\ started = 0
    /\ shadowed = {}
    /\ arg = NoArg
    /\ result = NoResult

\* ------------------------------------------------------------------ actions
\* Entry of a lifecycle call: the arguments are bound and the text is computed.
Enter(p, state) ==
    /\ pc[p] = "idle"
    /\ started < MaxCalls
    /\ \E pr \in PullRequests, build \in BuildDetails :
        /\ call' = [call EXCEPT ![p] =
                        [pr |-> pr, build |-> build, state |-> state]]
        /\ shadowed' = shadowed \cup
                {c \in CommitIds \ {pr.from_commit} : Contains(Text(pr, build, state), c)}
    /\ pc' = [pc EXCEPT ![p] = "get_comments"]
    /\ before' = [before EXCEPT ![p] = comments]
    /\ started' = started + 1
    /\ UNCHANGED <<comments, next_id, post_build_flag, found, fetched, comment, opcode,
                   trace, ret, last, initial, arg, result>>

build_queued(p) == Enter(p, "INPROGRESS")

\* build_running is self.build_queued(&pr, &build).
build_running(p) == build_queued(p)

build_success(p) == Enter(p, "SUCCESSFUL")

build_failure(p) == Enter(p, "FAILED")

\* update_pr_build_status_comment, line 312: self.get_comments(pr.id).  The remote
\* answers with the activities or the request fails; on Ok the matcher runs on the
\* returned list (lines 313-325) and decides the write.
get_comments(p) ==
    /\ pc[p] = "get_comments"
    /\ \E ok \in BOOLEAN :
        LET cs == OwnComments(comments)
            m == Classify(cs, text(p), call[p].pr.from_commit)
        IN /\ trace' = [trace EXCEPT ![p] = Append(@, [op |-> "listOwnComments", ok |-> ok])]
           /\ fetched' = [fetched EXCEPT ![p] = IF ok THEN Ok(cs) ELSE Err]
           /\ IF ~ok
              THEN /\ comment' = [comment EXCEPT ![p] = Err]
                   /\ opcode' = [opcode EXCEPT ![p] = "Error"]
                   /\ found' = [found EXCEPT ![p] = None]
                   /\ pc' = [pc EXCEPT ![p] = "broadcast"]
              ELSE IF m.kind = "Existing"
              THEN /\ comment' = [comment EXCEPT ![p] = Ok(m.found[1])]
                   /\ opcode' = [opcode EXCEPT ![p] = "Existing"]
                   /\ found' = [found EXCEPT ![p] = m.found]
                   /\ pc' = [pc EXCEPT ![p] = "broadcast"]
              ELSE IF m.kind = "Update"
              THEN /\ found' = [found EXCEPT ![p] = m.found]
                   /\ pc' = [pc EXCEPT ![p] = "edit_comment"]
                   /\ UNCHANGED <<comment, opcode>>
              ELSE /\ found' = [found EXCEPT ![p] = None]
                   /\ pc' = [pc EXCEPT ![p] = "post_comment"]
                   /\ UNCHANGED <<comment, opcode>>
    /\ UNCHANGED <<comments, next_id, post_build_flag, call, ret, before, last, started,
                   initial, shadowed,
                   arg, result>>

\* The remote list after a comment write that returned an error to the call: the
\* write was not applied.
AfterFailedWrite(cs) == cs

\* Variant of RemoteEdit: the id is not compared, every comment at the version sent
\* is rewritten.
RemoteEdit_any_id(cs, id, version, t) ==
    [i \in 1..Len(cs) |->
        IF cs[i].version = version
        THEN [cs[i] EXCEPT !.text = t, !.version = version + 1]
        ELSE cs[i]]

\* The remote's answer to PUT .../comments/{id} with body {text, version}: the comment
\* with that id is rewritten and its version bumped when the version sent is its
\* current one; a stale version is refused.
RemoteEdit(cs, id, version, t) ==
    [i \in 1..Len(cs) |->
        IF cs[i].id = id /\ cs[i].version = version
        THEN [cs[i] EXCEPT !.text = t, !.version = version + 1]
        ELSE cs[i]]

\* Variant of edit_comment: the version sent is the one the remote holds when the
\* edit is sent, not the one of the comment in the fetched list.
edit_comment_latest_version(p) ==
    /\ pc[p] = "edit_comment"
    /\ LET c == found[p][1]
           held == {comments[i].version : i \in {j \in 1..Len(comments) : comments[j].id = c.id}}
           version == CHOOSE v \in held : TRUE
           after == RemoteEdit(comments, c.id, version, text(p))
       IN \E ok \in BOOLEAN :
            /\ ok => after # comments
            /\ trace' = [trace EXCEPT ![p] = Append(@,
                    [op |-> "editComment", id |-> c.id, version |-> version,
                     text |-> text(p), ok |-> ok, stale |-> (after = comments)])]
            /\ comments' = IF ok THEN after ELSE AfterFailedWrite(comments)
            /\ comment' = [comment EXCEPT ![p] =
                    IF ok THEN Ok([c EXCEPT !.text = text(p), !.version = version + 1])
                    ELSE Err]
    /\ opcode' = [opcode EXCEPT ![p] = "Update"]
    /\ pc' = [pc EXCEPT ![p] = "broadcast"]
    /\ UNCHANGED <<next_id, post_build_flag, call, found, fetched, ret, before, last,
                   started, initial, shadowed, arg, result>>

\* Variant of edit_comment: when the edit fails the text is posted as a new comment.
edit_comment_fallback(p) ==
    /\ pc[p] = "edit_comment"
    /\ LET c == found[p][1]
           after == RemoteEdit(comments, c.id, c.version, text(p))
       IN \E ok \in BOOLEAN :
            /\ ok => after # comments
            /\ trace' = [trace EXCEPT ![p] = Append(@,
                    [op |-> "editComment", id |-> c.id, version |-> c.version,
                     text |-> text(p), ok |-> ok, stale |-> (after = comments)])]
            /\ comments' = IF ok THEN after ELSE AfterFailedWrite(comments)
            /\ comment' = [comment EXCEPT ![p] =
                    IF ok THEN Ok([c EXCEPT !.text = text(p), !.version = c.version + 1])
                    ELSE Err]
            /\ pc' = [pc EXCEPT ![p] = IF ok THEN "broadcast" ELSE "post_comment"]
    /\ opcode' = [opcode EXCEPT ![p] = "Update"]
    /\ UNCHANGED <<next_id, post_build_flag, call, found, fetched, ret, before, last,
                   started, initial, shadowed, arg, result>>

\* edit_comment, lines 385-403, as called at line 320 with the matched comment.
edit_comment(p) ==
    /\ pc[p] = "edit_comment"
    /\ LET c == found[p][1]
           after == RemoteEdit(comments, c.id, c.version, text(p))
       IN \E ok \in BOOLEAN :
            /\ ok => after # comments
            /\ trace' = [trace EXCEPT ![p] = Append(@,
                    [op |-> "editComment", id |-> c.id, version |-> c.version,
                     text |-> text(p), ok |-> ok, stale |-> (after = comments)])]
            /\ comments' = IF ok THEN after ELSE AfterFailedWrite(comments)
            /\ comment' = [comment EXCEPT ![p] =
                    IF ok THEN Ok([c EXCEPT !.text = text(p), !.version = c.version + 1])
                    ELSE Err]
    /\ opcode' = [opcode EXCEPT ![p] = "Update"]
    /\ pc' = [pc EXCEPT ![p] = "broadcast"]
    /\ UNCHANGED <<next_id, post_build_flag, call, found, fetched, ret, before, last,
                   started, initial, shadowed,
                   arg, result>>

\* Variant of RemoteCreate: a comment of the same author with the same text is
\* reused instead of a new one being added.
RemoteCreate_reuse(cs, id, t) ==
    IF \E i \in 1..Len(cs) : cs[i].text = t /\ cs[i].author = Username
    THEN cs
    ELSE Append(cs, [id |-> id, version |-> 0, text |-> t, author |-> Username])

\* The remote's answer to POST .../comments with body {text}: a new comment of the
\* authenticated account, at the end of the list.
RemoteCreate(cs, id, t) ==
    Append(cs, [id |-> id, version |-> 0, text |-> t, author |-> Username])

\* post_comment, lines 366-383, as called at line 322.
post_comment(p) ==
    /\ pc[p] = "post_comment"
    /\ \E ok \in BOOLEAN :
        LET after == RemoteCreate(comments, next_id, text(p))
            \* the response carries the comment the remote now ends its list with
            c == after[Len(after)]
        IN /\ trace' = [trace EXCEPT ![p] = Append(@,
                    [op |-> "createComment", text |-> text(p), ok |-> ok])]
           /\ comments' = IF ok THEN after ELSE AfterFailedWrite(comments)
           /\ next_id' = IF ok THEN next_id + 1 ELSE next_id
           /\ comment' = [comment EXCEPT ![p] = IF ok THEN Ok(c) ELSE Err]
    /\ opcode' = [opcode EXCEPT ![p] = "Post"]
    /\ pc' = [pc EXCEPT ![p] = "broadcast"]
    /\ UNCHANGED <<post_build_flag, call, found, fetched, ret, before, last, started,
                   initial, shadowed,
                   arg, result>>

\* Variant of broadcast: the event is emitted only when there is a comment.
broadcast_if_ok(p) ==
    /\ pc[p] = "broadcast"
    /\ trace' = [trace EXCEPT ![p] =
            IF comment[p].ok
            THEN Append(@, [op |-> "broadcast",
                            opcode |-> "Bitbucket::" \o "Comment::" \o opcode[p],
                            pr |-> TRUE, build |-> TRUE, comment |-> comment[p].v])
            ELSE @]
    /\ LET then == AfterReconcile(comment[p].ok, post_build_flag)
       IN IF then = "post_build"
          THEN /\ pc' = [pc EXCEPT ![p] = "post_build"]
               /\ UNCHANGED ret
          ELSE /\ ret' = [ret EXCEPT ![p] = then]
               /\ pc' = [pc EXCEPT ![p] = "return"]
    /\ UNCHANGED <<comments, next_id, post_build_flag, call, found, fetched, comment,
                   opcode, before, last, started, initial, shadowed, arg, result>>

\* update_pr_build_status_comment, lines 330-338: the event payload gets the comment
\* when there is one, the event is broadcast and the result returned; then the
\* lifecycle call's match on it (lines 201-213).
broadcast(p) ==
    /\ pc[p] = "broadcast"
    /\ trace' = [trace EXCEPT ![p] = Append(@,
            [op |-> "broadcast", opcode |-> "Bitbucket::" \o "Comment::" \o opcode[p],
             pr |-> TRUE, build |-> TRUE, comment |-> comment[p].v])]
    /\ LET then == AfterReconcile(comment[p].ok, post_build_flag)
       IN IF then = "post_build"
          THEN /\ pc' = [pc EXCEPT ![p] = "post_build"]
               /\ UNCHANGED ret
          ELSE /\ ret' = [ret EXCEPT ![p] = then]
               /\ pc' = [pc EXCEPT ![p] = "return"]
    /\ UNCHANGED <<comments, next_id, post_build_flag, call, found, fetched, comment,
                   opcode, before, last, started, initial, shadowed,
                   arg, result>>

\* Variant of make_build: only the Failure outcome of a finished build gives FAILED.
make_build_failure_arm(build) ==
    [state |-> IF build.state = "Finished" /\ build.status = "Success" THEN "SUCCESSFUL"
               ELSE IF build.state = "Finished" /\ build.status = "Failure" THEN "FAILED"
               ELSE "INPROGRESS",
     url |-> build.web_url,
     description |-> status_text_of(build)]

\* make_build, lines 428-451 (key and name copy build.build_id and build.id, which
\* no decision reads).
make_build(build) ==
    [state |-> IF build.state = "Finished"
               THEN (IF build.status = "Success" THEN "SUCCESSFUL" ELSE "FAILED")
               ELSE "INPROGRESS",
     url |-> build.web_url,
     description |-> status_text_of(build)]

\* Answers to the build-status POST: 204, another status, or a transport error.
PostRawResponses == {"NoContent", "OtherStatus", "TransportError"}

\* Variant of post_build: a refused or failed POST is sent a second time.
post_build_retry(p) ==
    /\ pc[p] = "post_build"
    /\ \E response \in PostRawResponses :
        LET e == [op |-> "postBuildStatus", commit |-> call[p].pr.from_commit,
                  record |-> make_build(call[p].build), response |-> response]
        IN /\ trace' = [trace EXCEPT ![p] =
                    IF response = "NoContent" THEN Append(@, e) ELSE Append(Append(@, e), e)]
           /\ ret' = [ret EXCEPT ![p] =
                    IF response = "NoContent" THEN "Ok" ELSE "Err: Error posting build"]
    /\ pc' = [pc EXCEPT ![p] = "return"]
    /\ UNCHANGED <<comments, next_id, post_build_flag, call, found, fetched, comment,
                   opcode, before, last, started, initial, shadowed, arg, result>>

\* post_build, lines 405-426, as called at lines 207, 228, 244.
post_build(p) ==
    /\ pc[p] = "post_build"
    /\ \E response \in PostRawResponses :
        /\ trace' = [trace EXCEPT ![p] = Append(@,
                [op |-> "postBuildStatus", commit |-> call[p].pr.from_commit,
                 record |-> make_build(call[p].build), response |-> response])]
        /\ ret' = [ret EXCEPT ![p] =
                IF response = "NoContent" THEN "Ok" ELSE "Err: Error posting build"]
    /\ pc' = [pc EXCEPT ![p] = "return"]
    /\ UNCHANGED <<comments, next_id, post_build_flag, call, found, fetched, comment,
                   opcode, before, last, started, initial, shadowed,
                   arg, result>>

\* The lifecycle call returns to its caller; the execution context is free again.
return(p) ==
    /\ pc[p] = "return"
    /\ last' = [call |-> call[p], opcode |-> opcode[p], ok |-> comment[p].ok]
    /\ pc' = [pc EXCEPT ![p] = "idle"]
    /\ call' = [call EXCEPT ![p] = NoCall]
    /\ found' = [found EXCEPT ![p] = None]
    /\ fetched' = [fetched EXCEPT ![p] = Err]
    /\ comment' = [comment EXCEPT ![p] = Err]
    /\ opcode' = [opcode EXCEPT ![p] = ""]
    /\ trace' = [trace EXCEPT ![p] = <<>>]
    /\ ret' = [ret EXCEPT ![p] = ""]
    /\ before' = [before EXCEPT ![p] = <<>>]
    /\ UNCHANGED <<comments, next_id, post_build_flag, started, initial, shadowed,
                   arg, result>>

Step(p) ==
    \/ build_queued(p)
    \/ build_running(p)
    \/ build_success(p)
    \/ build_failure(p)
    \/ get_comments(p)
    \/ edit_comment(p)
    \/ post_comment(p)
    \/ broadcast(p)
    \/ post_build(p)
    \/ return(p)

\* Lifecycle calls from any number of execution contexts, interleaved at the
\* remote requests.
Next == \E p \in Procs : Step(p)

Spec == Init /\ [][Next]_vars

\* The caller serializes the lifecycle calls: each call finishes before the next
\* starts, as when one execution context makes them all.
SerialNext == Step(1)

SerialSpec == Init /\ [][SerialNext]_vars

\* ------------------------------------------------------------------ pure functions
\* Arguments for the text generation and for make_build run on their own: every
\* BuildState, two URLs, the commit ids, an absent, an empty and a present status
\* text, every phase, and an outcome that is neither Success nor Failure.
Args ==
    [state : {"INPROGRESS", "FAILED", "SUCCESSFUL"},
     pr : PullRequests,
     build : [web_url : {<<"u">>, <<"u", "1", "2">>},
              status_text : {None, Some(<<>>), Some(<<"k">>)},
              state : {"Queued", "Running", "Finished"},
              status : {"Success", "Failure", "Unknown"}]]

PureInit ==
    /\ comments = <<>>
    /\ initial = comments
    /\ next_id = 1
    /\ post_build_flag = FALSE
    /\ pc = [p \in Procs |-> "idle"]
    /\ call = [p \in Procs |-> NoCall]
    /\ found = [p \in Procs |-> None]
    /\ fetched = [p \in Procs |-> Err]
    /\ comment = [p \in Procs |-> Err]
    /\ opcode = [p \in Procs |-> ""]
    /\ trace = [p \in Procs |-> <<>>]
    /\ ret = [p \in Procs |-> ""]
    /\ before = [p \in Procs |-> <<>>]
    /\ last = NoLast
    /\ started = 0
    /\ shadowed = {}
    /\ arg \in Args
    /\ result = NoResult

\* update_pr_build_status_comment, lines 290-306, on arg.
generate_text ==
    /\ result = NoResult
    /\ result' = [of |-> "text", text |-> Text(arg.pr, arg.build, arg.state), state |-> ""]
    /\ UNCHANGED <<comments, next_id, post_build_flag, pc, call, found, fetched, comment,
                   opcode, trace, ret, before, last, started, initial, shadowed, arg>>

\* make_build, lines 428-451, on arg.build.
apply_make_build ==
    /\ result = NoResult
    /\ result' = [of |-> "make_build", text |-> make_build(arg.build).description,
                  state |-> make_build(arg.build).state]
    /\ UNCHANGED <<comments, next_id, post_build_flag, pc, call, found, fetched, comment,
                   opcode, trace, ret, before, last, started, initial, shadowed, arg>>

PureNext == generate_text \/ apply_make_build

PureSpec == PureInit /\ [][PureNext]_vars

\* ------------------------------------------------------------------ observations
\* Positions in the call's trace of the requests named op.
Ops(p, op) == {i \in 1..Len(trace[p]) : trace[p][i].op = op}

Writes(p) == Ops(p, "createComment") \cup Ops(p, "editComment")

\* The call has its answer from get_comments; its write, if any, is done; its event
\* is out.
AfterList(p) == pc[p] \in {"edit_comment", "post_comment", "broadcast", "post_build", "return"}
WriteDone(p) == pc[p] \in {"broadcast", "post_build", "return"}
Emitted(p) == pc[p] \in {"post_build", "return"}

\* The list a call fetched (when fetched[p].ok).
Candidates(p) == fetched[p].v[1]

\* Positions of the comments of cs whose text contains the commit id c.
Containing(cs, c) == {i \in 1..Len(cs) : Contains(cs[i].text, c)}

\* Positions of the comments of cs whose text is t.
Equal(cs, t) == {i \in 1..Len(cs) : cs[i].text = t}

Least(S) == CHOOSE i \in S : \A j \in S : i <= j

\* ------------------------------------------------------------------ C1
\* C1 (as stated): starting from a pull request with no comment of the account, under
\* serialized lifecycle calls with any mix of failing remote calls, at most one
\* comment of the account contains a given commit id.
C1_OnePerCommit_AsStated ==
    OwnComments(initial) = <<>> =>
        \A c \in CommitIds : Cardinality(Containing(OwnComments(comments), c)) <= 1

\* C1 (amended): the same, for every commit id that has not occurred in the text of a
\* call made for a different commit id.
C1_OnePerCommit ==
    OwnComments(initial) = <<>> =>
        \A c \in CommitIds \ shadowed :
            Cardinality(Containing(OwnComments(comments), c)) <= 1

C1_Witness ==
    /\ OwnComments(initial) = <<>>
    /\ started = 2
    /\ Len(OwnComments(comments)) = 2
    /\ \E c \in CommitIds \ shadowed :
        Cardinality(Containing(OwnComments(comments), c)) = 1

\* ------------------------------------------------------------------ C2
\* A fetched list with no exact and no substring match for the call.
NoMatch(p) ==
    /\ Equal(Candidates(p), text(p)) = {}
    /\ Containing(Candidates(p), call[p].pr.from_commit) = {}

\* C2: two concurrent calls for the same commit id that both fetched a list with no
\* match are both classified Post, and when both creates succeed the remote list
\* holds the two created comments as separate entries.
C2_BothCreate ==
    \A p, q \in Procs :
        ( /\ p # q
          /\ AfterList(p) /\ AfterList(q)
          /\ call[p].pr.from_commit = call[q].pr.from_commit
          /\ fetched[p].ok /\ fetched[q].ok
          /\ NoMatch(p) /\ NoMatch(q) )
        => /\ pc[p] # "edit_comment"
           /\ Ops(p, "editComment") = {}
           /\ WriteDone(p) => opcode[p] = "Post" /\ Cardinality(Ops(p, "createComment")) = 1
           /\ (WriteDone(p) /\ WriteDone(q) /\ comment[p].ok /\ comment[q].ok) =>
                /\ comment[p].v[1].id # comment[q].v[1].id
                /\ \A r \in {p, q} : \E i \in 1..Len(comments) :
                        /\ comments[i].id = comment[r].v[1].id
                        /\ comments[i].author = Username

\* Both calls fetched the empty list, both created, and the list ends with two
\* comments containing the commit id.
C2_Witness ==
    \E p, q \in Procs :
        /\ p # q
        /\ pc[p] = "return" /\ pc[q] = "return"
        /\ call[p].pr.from_commit = call[q].pr.from_commit
        /\ fetched[p].ok /\ fetched[q].ok
        /\ NoMatch(p) /\ NoMatch(q)
        /\ opcode[p] = "Post" /\ opcode[q] = "Post"
        /\ comment[p].ok /\ comment[q].ok
        /\ Cardinality(Containing(OwnComments(comments), call[p].pr.from_commit)) = 2

\* ------------------------------------------------------------------ C3
\* The call of p immediately follows an identical call whose write succeeded.
Redelivery(p) ==
    /\ AfterList(p)
    /\ last.ok
    /\ last.opcode \in {"Post", "Update"}
    /\ last.call = call[p]

Idempotent(p) ==
    /\ pc[p] \notin {"edit_comment", "post_comment"}
    /\ Writes(p) = {}
    /\ opcode[p] = "Existing"
    /\ comment[p].ok
    /\ comments = before[p]

C4_Existing ==
    \A p \in Procs :
        (AfterList(p) /\ fetched[p].ok /\ Equal(Candidates(p), text(p)) # {}) =>
            /\ pc[p] \notin {"edit_comment", "post_comment"}
            /\ Writes(p) = {}
            /\ opcode[p] = "Existing"
            /\ comment[p] = Ok(Candidates(p)[Least(Equal(Candidates(p), text(p)))])

\* Two comments of the list equal the desired text.
C4_Witness ==
    \E p \in Procs :
        /\ pc[p] = "return" /\ fetched[p].ok
        /\ Cardinality(Equal(Candidates(p), text(p))) = 2
        /\ opcode[p] = "Existing"

\* ------------------------------------------------------------------ C5
\* The fetched list calls for an edit: no exact match, some comment with the commit id.
UpdateCase(p) ==
    /\ AfterList(p) /\ fetched[p].ok
    /\ Equal(Candidates(p), text(p)) = {}
    /\ Containing(Candidates(p), call[p].pr.from_commit) # {}

\* C5: in that case the call issues exactly one edit and no create; the edit carries
\* the id and version of the first comment containing the commit id and the desired
\* text; the outcome kind is Update.
C5_Update ==
    \A p \in Procs :
        UpdateCase(p) =>
            LET first == Candidates(p)[Least(Containing(Candidates(p),
                                                        call[p].pr.from_commit))]
            IN /\ pc[p] # "post_comment"
               /\ Ops(p, "createComment") = {}
               /\ pc[p] = "edit_comment" => Ops(p, "editComment") = {}
               /\ WriteDone(p) =>
                    /\ Cardinality(Ops(p, "editComment")) = 1
                    /\ \A i \in Ops(p, "editComment") :
                        /\ trace[p][i].id = first.id
                        /\ trace[p][i].version = first.version
                        /\ trace[p][i].text = text(p)
                    /\ opcode[p] = "Update"

\* Several comments contain the commit id, and the edit went through.
C5_Witness ==
    \E p \in Procs :
        /\ UpdateCase(p) /\ pc[p] = "return"
        /\ Cardinality(Containing(Candidates(p), call[p].pr.from_commit)) > 1
        /\ comment[p].ok

\* ------------------------------------------------------------------ C6
\* The fetched list calls for a new comment: no exact and no substring match.
PostCase(p) == AfterList(p) /\ fetched[p].ok /\ NoMatch(p)

\* C6: in that case (the empty list included) the call issues exactly one create with
\* the desired text and no edit, and the outcome kind is Post.
C6_Post ==
    \A p \in Procs :
        PostCase(p) =>
            /\ pc[p] # "edit_comment"
            /\ Ops(p, "editComment") = {}
            /\ pc[p] = "post_comment" => Ops(p, "createComment") = {}
            /\ WriteDone(p) =>
                /\ Cardinality(Ops(p, "createComment")) = 1
                /\ \A i \in Ops(p, "createComment") : trace[p][i].text = text(p)
                /\ opcode[p] = "Post"

\* A list that is not empty and has no match.
C6_Witness ==
    \E p \in Procs :
        /\ PostCase(p) /\ pc[p] = "return"
        /\ Candidates(p) # <<>>
        /\ comment[p].ok

\* ------------------------------------------------------------------ C7
\* Positions of an exact match and of another comment that only contains the commit id.
ExactAndSubstring(p) ==
    {ij \in (1..Len(Candidates(p))) \X (1..Len(Candidates(p))) :
        /\ Candidates(p)[ij[1]].text = text(p)
        /\ Candidates(p)[ij[2]].text # text(p)
        /\ Contains(Candidates(p)[ij[2]].text, call[p].pr.from_commit)}

\* C7: when the fetched list holds both, in either order, the outcome is Existing and
\* nothing is written.
C7_Precedence ==
    \A p \in Procs :
        (AfterList(p) /\ fetched[p].ok /\ ExactAndSubstring(p) # {}) =>
            /\ pc[p] \notin {"edit_comment", "post_comment"}
            /\ Writes(p) = {}
            /\ opcode[p] = "Existing"
            /\ comment[p].ok /\ comment[p].v[1].text = text(p)

\* The comment that only contains the commit id comes before every exact match.
C7_Witness ==
    \E p \in Procs :
        /\ pc[p] = "return" /\ fetched[p].ok
        /\ ExactAndSubstring(p) # {}
        /\ \A ij \in ExactAndSubstring(p) : ij[2] < ij[1]
        /\ opcode[p] = "Existing"

\* ------------------------------------------------------------------ C8
\* C8: when the comment listing fails, the call issues no create, no edit and no
\* build-status post, emits exactly one event, tagged Comment::Error, with pr and
\* build and no comment, returns an error, and the remote list is as before.
C8_ListFailure ==
    \A p \in Procs :
        (AfterList(p) /\ ~fetched[p].ok) =>
            /\ pc[p] \in {"broadcast", "return"}
            /\ Writes(p) = {}
            /\ Ops(p, "postBuildStatus") = {}
            /\ comments = before[p]
            /\ pc[p] = "return" =>
                /\ Len(trace[p]) = 2
                /\ trace[p][2] = [op |-> "broadcast",
                                  opcode |-> "Bitbucket::Comment::Error",
                                  pr |-> TRUE, build |-> TRUE, comment |-> None]
                /\ ret[p] = "Err: Error submitting comment"

\* The listing failed on a pull request that has comments, with post_build set.
C8_Witness ==
    \E p \in Procs :
        /\ pc[p] = "return" /\ ~fetched[p].ok
        /\ post_build_flag
        /\ OwnComments(comments) # <<>>

\* ------------------------------------------------------------------ C9
\* C9: when the list was fetched and the edit or create failed, the one event of the
\* call is tagged Comment::Error and carries no comment.
C9_WriteFailureEvent ==
    \A p \in Procs :
        ( /\ Emitted(p) /\ fetched[p].ok
          /\ \E i \in Writes(p) : ~trace[p][i].ok )
        => /\ Cardinality(Ops(p, "broadcast")) = 1
           /\ \A i \in Ops(p, "broadcast") :
                /\ trace[p][i].opcode = "Bitbucket::Comment::Error"
                /\ trace[p][i].comment = None

\* ------------------------------------------------------------------ C10
\* C10: with post_build unset the build status is never posted; with it set it is
\* posted exactly once, after the reconciliation of the same call returned a comment
\* and its event was emitted, and never when the reconciliation failed.
C10_StatusPostGating ==
    \A p \in Procs :
        LET posts == Ops(p, "postBuildStatus")
        IN /\ ~post_build_flag => posts = {}
           /\ Cardinality(posts) <= 1
           /\ \A i \in posts :
                /\ comment[p].ok
                /\ opcode[p] \in {"Existing", "Update", "Post"}
                /\ i = Len(trace[p])
                /\ trace[p][i - 1].op = "broadcast"
           /\ (pc[p] = "return" /\ post_build_flag /\ comment[p].ok) =>
                Cardinality(posts) = 1
           /\ (pc[p] = "return" /\ ~comment[p].ok) => posts = {}

C10_Witness ==
    \E p \in Procs :
        /\ pc[p] = "return" /\ post_build_flag
        /\ opcode[p] = "Update" /\ comment[p].ok
        /\ Cardinality(Ops(p, "postBuildStatus")) = 1

\* ------------------------------------------------------------------ C11
\* C11: whatever the phase and outcome of the build descriptor, the state of the
\* build-status record a lifecycle call posts is the BuildState its comment text was
\* generated with (INPROGRESS for build_queued and build_running, SUCCESSFUL for
\* build_success, FAILED for build_failure).
C11_StatusLabelAgrees ==
    \A p \in Procs :
        \A i \in Ops(p, "postBuildStatus") :
            trace[p][i].record.state = call[p].state

\* ------------------------------------------------------------------ C12
\* The remote list after the comment step of the call of p, for calls made one at a
\* time: as before the call when the comment was reused, with the one comment
\* rewritten after an edit, with the new comment at its end after a create.
AfterCommentStep(p) ==
    IF opcode[p] = "Update"
    THEN RemoteEdit(before[p], found[p][1].id, found[p][1].version, text(p))
    ELSE IF opcode[p] = "Post"
    THEN Append(before[p], comment[p].v[1])
    ELSE before[p]

\* C12: when the build-status post fails (no answer, or an answer other than 204)
\* after a successful reconciliation, the remote list is as the comment step left
\* it and holds the comment of the call, no comment request follows, the post was
\* sent once, the one event of the call carries its Existing/Update/Post tag and
\* the comment, and the call returns the build-post error.
C12_StatusPostFailure ==
    \A p \in Procs :
        LET posts == Ops(p, "postBuildStatus")
        IN (\E i \in posts : trace[p][i].response # "NoContent") =>
            /\ Cardinality(posts) = 1
            /\ \A i \in posts : \A w \in Writes(p) \cup Ops(p, "listOwnComments") : w < i
            /\ Cardinality(Writes(p)) <= 1
            /\ comment[p].ok
            /\ comments = AfterCommentStep(p)
            /\ \E i \in 1..Len(comments) : comments[i] = comment[p].v[1]
            /\ Cardinality(Ops(p, "broadcast")) = 1
            /\ \A b \in Ops(p, "broadcast") :
                /\ opcode[p] \in {"Existing", "Update", "Post"}
                /\ trace[p][b].opcode = "Bitbucket::Comment::" \o opcode[p]
                /\ trace[p][b].comment = comment[p].v
            /\ ret[p] = "Err: Error posting build"

\* A refused build-status post after an edit that was applied.
C12_Witness ==
    \E p \in Procs :
        /\ pc[p] = "return" /\ opcode[p] = "Update" /\ comment[p].ok
        /\ \E i \in Ops(p, "postBuildStatus") : trace[p][i].response = "OtherStatus"
        /\ ret[p] = "Err: Error posting build"

\* ------------------------------------------------------------------ C13
\* C13: every call of update_pr_build_status_comment, on each of its paths, emits
\* exactly one event, after its list and write requests have returned and before
\* the call returns; the payload has pr and build, and has the comment exactly when
\* the result is a comment (found by exact match, or returned by a successful edit
\* or create).
C13_OneEvent ==
    \A p \in Procs :
        LET events == Ops(p, "broadcast")
            requests == Ops(p, "listOwnComments") \cup Writes(p)
        IN /\ Cardinality(events) = (IF Emitted(p) THEN 1 ELSE 0)
           /\ ret[p] # "" => Cardinality(events) = 1
           /\ \A b \in events :
                /\ Cardinality(Ops(p, "listOwnComments")) = 1
                /\ \A i \in requests : i < b
                /\ (fetched[p].ok /\ opcode[p] \in {"Update", "Post"}) =>
                        Cardinality(Writes(p)) = 1
                /\ trace[p][b].pr /\ trace[p][b].build
                /\ trace[p][b].comment # None <=> comment[p].ok
                /\ comment[p].ok => trace[p][b].comment = comment[p].v
                /\ comment[p].ok <=>
                        \/ fetched[p].ok /\ opcode[p] = "Existing"
                        \/ \E w \in Writes(p) : trace[p][w].ok

\* A call whose edit failed has returned with its one event, which has no comment.
C13_Witness ==
    \E p \in Procs :
        /\ pc[p] = "return"
        /\ \E w \in Ops(p, "editComment") : ~trace[p][w].ok
        /\ \E b \in Ops(p, "broadcast") : trace[p][b].comment = None

\* ------------------------------------------------------------------ C14
\* The three templates, with their placeholders as single tokens.
Template(state) ==
    CASE state = "INPROGRESS" ->
            <<"U+23F3", " ", "[", "B", "u", "i", "l", "d", "]", "(", "<buildURL>", ")",
              " ", "f", "o", "r", " ", "c", "o", "m", "m", "i", "t", " ", "<commitID>",
              " ", "q", "u", "e", "u", "e", "d">>
      [] state = "SUCCESSFUL" ->
            <<"U+2714", "U+FE0F", " ", "[", "B", "u", "i", "l", "d", "]", "(",
              "<buildURL>", ")", " ", "f", "o", "r", " ", "c", "o", "m", "m", "i", "t",
              " ", "<commitID>", " ", "i", "s", " ", "*", "*", "s", "u", "c", "c", "e",
              "s", "s", "f", "u", "l", "*", "*", ":", " ", "<statusMessage>">>
      [] state = "FAILED" ->
            <<"U+274C", " ", "[", "B", "u", "i", "l", "d", "]", "(", "<buildURL>", ")",
              " ", "f", "o", "r", " ", "c", "o", "m", "m", "i", "t", " ", "<commitID>",
              " ", "h", "a", "s", " ", "*", "*", "f", "a", "i", "l", "e", "d", "*", "*",
              ":", " ", "<statusMessage>">>

\* A template with each placeholder replaced by its value.
RECURSIVE Fill(_, _, _, _)
Fill(tpl, url, commit, message) ==
    IF tpl = <<>> THEN <<>>
    ELSE (CASE Head(tpl) = "<buildURL>" -> url
            [] Head(tpl) = "<commitID>" -> commit
            [] Head(tpl) = "<statusMessage>" -> message
            [] OTHER -> <<Head(tpl)>>)
         \o Fill(Tail(tpl), url, commit, message)

\* C14: the generated text is the template of its BuildState with the build URL,
\* the commit id and (in the SUCCESSFUL and FAILED templates) the status text filled
\* in, an absent status text being the empty string; so it contains the commit id,
\* the INPROGRESS text is the same for every status text, and the other two
\* BuildStates give other texts for the same arguments.
C14_Templates ==
    result.of = "text" =>
        LET message == IF arg.build.status_text = None THEN <<>>
                       ELSE arg.build.status_text[1]
            with(m) == [arg.build EXCEPT !.status_text = m]
        IN /\ result.text = Fill(Template(arg.state), arg.build.web_url,
                                  arg.pr.from_commit, message)
           /\ result.text = Text(arg.pr, with(Some(message)), arg.state)
           /\ Contains(result.text, arg.pr.from_commit)
           /\ arg.state = "INPROGRESS" =>
                \A m \in {None, Some(<<>>), Some(<<"k">>)} :
                    Text(arg.pr, with(m), arg.state) = result.text
           /\ \A s \in {"INPROGRESS", "SUCCESSFUL", "FAILED"} \ {arg.state} :
                Text(arg.pr, arg.build, s) # result.text

\* The FAILED text was generated for a build without status text.
C14_Witness ==
    /\ result.of = "text" /\ arg.state = "FAILED"
    /\ arg.build.status_text = None
    /\ arg.pr.from_commit = <<"1", "2">>

\* ------------------------------------------------------------------ C15
\* C15: for every phase and outcome, the state of the record make_build returns is
\* INPROGRESS when the phase is Queued or Running, SUCCESSFUL when the phase is
\* Finished and the outcome Success, FAILED when the phase is Finished and the
\* outcome is anything else.
C15_LabelMapping ==
    result.of = "make_build" =>
        /\ arg.build.state \in {"Queued", "Running"} => result.state = "INPROGRESS"
        /\ (arg.build.state = "Finished" /\ arg.build.status = "Success") =>
                result.state = "SUCCESSFUL"
        /\ (arg.build.state = "Finished" /\ arg.build.status # "Success") =>
                result.state = "FAILED"
        /\ result.state \in {"INPROGRESS", "SUCCESSFUL", "FAILED"}

\* make_build ran on a finished build whose outcome is neither Success nor Failure.
C15_Witness ==
    /\ result.of = "make_build"
    /\ arg.build.state = "Finished" /\ arg.build.status = "Unknown"
    /\ result.state = "FAILED"

\* ------------------------------------------------------------------ C16
\* build_queued, then build_success or build_failure for the same pull request and
\* commit id, one after the other on a pull request without comments of the
\* account, every comment request of both calls succeeding; p is in the second call,
\* past its write.
QueuedThenFinished(p) ==
    /\ started = 2 /\ WriteDone(p)
    /\ OwnComments(initial) = <<>>
    /\ last.call.state = "INPROGRESS" /\ last.ok
    /\ call[p].state \in {"SUCCESSFUL", "FAILED"}
    /\ call[p].pr = last.call.pr
    /\ fetched[p].ok
    /\ \A w \in Writes(p) : trace[p][w].ok

\* C16: after build_queued followed by build_success or build_failure as above, the
\* first call has posted and the second has updated, the list holds one comment of
\* the account, which contains the commit id, has the id the first call's create
\* was given, and has the text of the second call.
C16_OverwriteInPlace ==
    \A p \in Procs :
        QueuedThenFinished(p) =>
            LET own == OwnComments(comments)
            IN /\ last.opcode = "Post"
               /\ opcode[p] = "Update" /\ comment[p].ok
               /\ Len(own) = 1
               /\ Cardinality(Containing(own, call[p].pr.from_commit)) = 1
               /\ own[1].id = Len(initial) + 1
               /\ own[1].id = found[p][1].id
               /\ own[1].text = text(p)
               /\ comment[p].v[1] = own[1]

\* The second call is build_failure and has returned; another account's comment is
\* in the list as well.
C16_Witness ==
    \E p \in Procs :
        /\ QueuedThenFinished(p)
        /\ pc[p] = "return"
        /\ call[p].state = "FAILED"
        /\ Len(comments) = 2

\* ------------------------------------------------------------------ C17
\* The step is the return of a successful create, or of a successful edit, of p.
Created(p) == pc[p] = "post_comment" /\ pc'[p] = "broadcast" /\ comment'[p].ok
Edited(p) == pc[p] = "edit_comment" /\ pc'[p] = "broadcast" /\ comment'[p].ok

\* C17: in every step of every interleaving, no comment leaves the remote list and
\* the comments keep their place, id and author; the list grows by one comment, at
\* its end, exactly on a successful create, and keeps its length on every other step;
\* a successful edit changes the text and version of the comment with the id it
\* targeted and nothing else; every other step leaves the list as it is.
C17_CommentLifecycle ==
    [][ /\ Len(comments') >= Len(comments)
        /\ \A i \in 1..Len(comments) :
                /\ comments'[i].id = comments[i].id
                /\ comments'[i].author = comments[i].author
        /\ Len(comments') = Len(comments) + (IF \E p \in Procs : Created(p) THEN 1 ELSE 0)
        /\ \A p \in Procs : Created(p) =>
                SubSeq(comments', 1, Len(comments)) = comments
        /\ \A p \in Procs : Edited(p) =>
                \E i \in 1..Len(comments) :
                    /\ comments[i].id = found[p][1].id
                    /\ comments'[i].text = text(p)
                    /\ comments'[i].version = comments[i].version + 1
                    /\ \A j \in 1..Len(comments) \ {i} : comments'[j] = comments[j]
        /\ (\A p \in Procs : ~Created(p) /\ ~Edited(p)) => comments' = comments
      ]_vars

\* One call has created a comment and another has edited it, next to the comment
\* of another account.
C17_Witness ==
    \E p, q \in Procs :
        /\ WriteDone(p) /\ opcode[p] = "Post" /\ comment[p].ok
        /\ WriteDone(q) /\ opcode[q] = "Update" /\ comment[q].ok
        /\ Len(comments) = 2 /\ comments[1].author = OtherUser

\* ------------------------------------------------------------------ C18
\* C18: a call sends at most one comment write in all, one create or one edit, also
\* when that write fails; after a failed write the remote list is as it was when the
\* call started, up to the return of the call.
C18_OneWrite ==
    \A p \in Procs :
        /\ Cardinality(Writes(p)) <= 1
        /\ Ops(p, "createComment") = {} \/ Ops(p, "editComment") = {}
        /\ (\E w \in Writes(p) : ~trace[p][w].ok) =>
                /\ WriteDone(p)
                /\ ~comment[p].ok
                /\ comments = before[p]
                /\ next_id = Len(comments) + 1

\* A call whose edit failed has returned, on a pull request with several comments.
C18_Witness ==
    \E p \in Procs :
        /\ pc[p] = "return"
        /\ \E w \in Ops(p, "editComment") : ~trace[p][w].ok
        /\ Cardinality(Writes(p)) = 1
        /\ Len(comments) > 2

\* ------------------------------------------------------------------ C19
\* The one edit request of the call of p.
EditOf(p) == trace[p][CHOOSE w \in Ops(p, "editComment") : TRUE]

\* Two calls for the same pull request and commit id fetched the same comment at the
\* same version, both went for Update and both have sent their edit; the remote
\* refused an edit only for its stale version, and the comment was still at the
\* fetched version when the first of the two edits arrived.
EditRace(p, q) ==
    /\ p # q
    /\ WriteDone(p) /\ WriteDone(q)
    /\ call[p].pr = call[q].pr
    /\ fetched[p].ok /\ fetched[q].ok
    /\ opcode[p] = "Update" /\ opcode[q] = "Update"
    /\ found[p] = found[q]
    /\ ~EditOf(p).ok => EditOf(p).stale
    /\ ~EditOf(q).ok => EditOf(q).stale
    /\ ~(EditOf(p).stale /\ EditOf(q).stale)

\* C19: the version an edit sends is the version the comment has in the list
\* fetched by the same call; so of two calls in an edit race exactly one edit
\* succeeds, the other call sends no second edit and no create and returns the
\* comment error, and the comment, one version further, has the text of the call
\* whose edit was applied.
C19_VersionGuard ==
    /\ \A p \in Procs : \A w \in Ops(p, "editComment") :
            /\ fetched[p].ok
            /\ trace[p][w].id = found[p][1].id
            /\ \E i \in 1..Len(Candidates(p)) :
                    /\ Candidates(p)[i].id = trace[p][w].id
                    /\ Candidates(p)[i].version = trace[p][w].version
    /\ \A p, q \in Procs :
            EditRace(p, q) =>
                /\ Cardinality(Ops(p, "editComment")) = 1
                /\ Ops(p, "createComment") = {}
                /\ EditOf(p).ok # EditOf(q).ok
                /\ EditOf(p).ok =>
                    /\ ~comment[q].ok
                    /\ pc[q] = "return" => ret[q] = "Err: Error submitting comment"
                    /\ \A i \in 1..Len(comments) :
                            ( /\ comments[i].id = found[p][1].id
                              /\ comments[i].version = found[p][1].version + 1 )
                            => comments[i].text = text(p)
                    /\ \E i \in 1..Len(comments) :
                            /\ comments[i].id = found[p][1].id
                            /\ comments[i].version > found[p][1].version

\* Both calls of an edit race have returned; the queued text was applied and the
\* failed text was refused.
C19_Witness ==
    \E p, q \in Procs :
        /\ EditRace(p, q)
        /\ pc[p] = "return" /\ pc[q] = "return"
        /\ EditOf(p).ok /\ call[p].state = "INPROGRESS"
        /\ ~EditOf(q).ok /\ call[q].state = "FAILED"
        /\ \E i \in 1..Len(comments) : comments[i].text = text(p)

\* ------------------------------------------------------------------ C20
\* The comment was written for commit id c: its text is one the engine generates
\* for c.
WrittenFor(cm, c) ==
    \E build \in BuildDetails, state \in {"INPROGRESS", "SUCCESSFUL", "FAILED"} :
        cm.text = Text([id |-> 1, from_commit |-> c], build, state)

\* C20 as stated: for calls made one at a time, the comment an Update for commit id
\* c edits was written for c, also when c occurs inside another commit id, a build
\* URL or a status text; and a call for a commit id for which no comment of the list
\* was written ends in Post.
C20_NoCrossCommit_AsStated ==
    \A p \in Procs :
        LET c == call[p].pr.from_commit
        IN /\ Ops(p, "editComment") # {} => WrittenFor(found[p][1], c)
           /\ ( /\ WriteDone(p) /\ fetched[p].ok
                /\ \A i \in 1..Len(Candidates(p)) : ~WrittenFor(Candidates(p)[i], c) )
              => opcode[p] = "Post"

\* C20, amended: for calls made one at a time, the comment an Update for commit id c
\* edits contains c in its text, so a comment written for another commit id is
\* edited only when c occurs in its text; comments whose text does not contain c
\* are left as they were; and a call for a commit id that occurs in the text of no
\* comment of the list ends in Post.
C20_NoCrossCommit ==
    \A p \in Procs :
        LET c == call[p].pr.from_commit
        IN /\ Ops(p, "editComment") # {} =>
                /\ Contains(found[p][1].text, c)
                /\ ~WrittenFor(found[p][1], c) =>
                        \E d \in CommitIds \ {c} : WrittenFor(found[p][1], d)
           /\ WriteDone(p) =>
                \A i \in 1..Len(before[p]) :
                    ~Contains(before[p][i].text, c) => comments[i] = before[p][i]
           /\ ( /\ WriteDone(p) /\ fetched[p].ok
                /\ Containing(Candidates(p), c) = {} )
              => opcode[p] = "Post"

\* After a call for commit id "1" rewrote a comment written for "12", a call for "12"
\* has passed over that comment, which no longer contains "12", and edited the next
\* comment written for "12".
C20_Witness ==
    \E p \in Procs :
        /\ pc[p] = "return" /\ opcode[p] = "Update" /\ comment[p].ok
        /\ call[p].pr.from_commit = <<"1", "2">>
        /\ WrittenFor(found[p][1], <<"1", "2">>)
        /\ last.call.pr.from_commit = <<"1">> /\ last.opcode = "Update" /\ last.ok
        /\ \E i \in 1..Len(Candidates(p)) :
                /\ Candidates(p)[i].id < found[p][1].id
                /\ WrittenFor(Candidates(p)[i], <<"1">>)
                /\ ~Contains(Candidates(p)[i].text, <<"1", "2">>)

====
